---- MODULE Spec2Model ----
(***************************************************************************)
(* Model of the data-acquisition layer of src/tools/api.py (the "api"      *)
(* module, juhe.cn provider) and src/tools/api_east.py (the "api_east"     *)
(* module, Sina / Eastmoney / financialdatasets providers).                *)
(*                                                                         *)
(* Date strings are numbers: the plain date "YYYY-MM-DD" of day d is 2*d   *)
(* and a date with a time part, "YYYY-MM-DDThh:mm", is 2*d + 1, so that    *)
(* Python's string order ("2023-01-02" < "2023-01-02T10:00" <              *)
(* "2023-01-03") is the order of the numbers.  A typed record (Price,      *)
(* FinancialMetrics, InsiderTrade, CompanyNews) is a TLA+ record with a    *)
(* field cls; model_dump strips cls and the constructor puts it back, so   *)
(* the cache holds plain field mappings.                                   *)
(***************************************************************************)
EXTENDS Integers, Sequences, FiniteSets, TLC

\* ---- bounds of the model ------------------------------------------------
MaxDay == 2
MaxResp == 2
MaxLimit == 2
MaxPages == 2
MaxCalls == 2
MaxPagedDay == 3
MaxPagedCalls == 1

\* ---- constants of the program -------------------------------------------
None == -1
HTTP_OK == 200
KlineFields == 7
DefaultLimit == 10
Yi == 100000000

Dates == {2 * d : d \in 1..MaxDay}
DateTimes == {2 * d + 1 : d \in 1..MaxDay}
Limits == 1..MaxLimit
Tickers == {"600000", "000001"}
Kinds == {"prices", "financial_metrics", "insider_trades", "company_news"}
Modules == {"api", "api_east"}
Callers == {1}
RaceCallers == {1, 2}

VARIABLES module, cache, call, ncalls

vars == <<module, cache, call, ncalls>>

\* ---- Python helpers ------------------------------------------------------
\* bool(x) for the optional values of the model: None and 0 are falsy.
Truthy(x) == x # None /\ x # 0

SeqsUpTo(S, n) == UNION {[1..k -> S] : k \in 0..n}

\* s[:n]
Take(s, n) == SubSeq(s, 1, IF Len(s) < n THEN Len(s) ELSE n)

\* min(...) over a non-empty collection of date strings
MinOf(S) == CHOOSE x \in S : \A y \in S : x <= y

\* str.split('T')[0]: the date without its time part
DatePart(d) == 2 * (d \div 2)

\* list.sort(key=..., reverse=True): stable, descending; key[i] is the key of s[i]
SortDesc(s, key) ==
    LET Before(i) == {j \in DOMAIN s : key[j] > key[i] \/ (key[j] = key[i] /\ j < i)}
    IN  [p \in DOMAIN s |-> s[CHOOSE i \in DOMAIN s : Cardinality(Before(i)) = p - 1]]

\* ---- data.models ---------------------------------------------------------
model_dump(o) == [f \in DOMAIN o \ {"cls"} |-> o[f]]

Price(d) == [cls |-> "Price", time |-> d.time]

FinancialMetrics(d) ==
    [cls |-> "FinancialMetrics", report_period |-> d.report_period, market_cap |-> d.market_cap]

InsiderTrade(d) ==
    [cls |-> "InsiderTrade", filing_date |-> d.filing_date, transaction_date |-> d.transaction_date]

CompanyNews(d) == [cls |-> "CompanyNews", date |-> d.date]

dump_all(list) == [i \in DOMAIN list |-> model_dump(list[i])]

\* x.transaction_date or x.filing_date
EffectiveDate(x) == IF Truthy(x.transaction_date) THEN x.transaction_date ELSE x.filing_date

ReportPeriod(x) == x.report_period

NewsDate(x) == x.date

\* .sort(key=lambda x: x.report_period, reverse=True)
sort_by_report_period(s) == SortDesc(s, [i \in DOMAIN s |-> ReportPeriod(s[i])])

\* .sort(key=lambda x: x.transaction_date or x.filing_date, reverse=True)
sort_by_effective_date(s) == SortDesc(s, [i \in DOMAIN s |-> EffectiveDate(s[i])])

\* .sort(key=lambda x: x.date, reverse=True)
sort_by_date(s) == SortDesc(s, [i \in DOMAIN s |-> NewsDate(s[i])])

\* ---- data.cache ----------------------------------------------------------
EmptyCache == [k \in Kinds |-> [t \in Tickers |-> <<>>]]

cache_get(k, t) == cache[k][t]

\* cache_set when the list is added to the list the cache holds
cache_set_merge(k, t, data) == [cache EXCEPT ![k][t] = @ \o data]

\* set_<kind>(ticker, data): the list replaces the list held for the ticker
cache_set(k, t, data) == [cache EXCEPT ![k][t] = data]

\* ---- state of a call -----------------------------------------------------
NoError == [type |-> "none", status_code |-> None]

Error(type, status) == [type |-> type, status_code |-> status]

Idle ==
    [pc |-> "idle", fn |-> "none", ticker |-> "none", start_date |-> None, end_date |-> None,
     limit |-> None, api_key |-> FALSE, current_end_date |-> None, all |-> <<>>, http |-> 0,
     responses |-> <<>>, ret |-> <<>>,
     err |-> NoError, hit |-> FALSE, wrote |-> FALSE, written |-> <<>>, repeat |-> FALSE,
     cache0 |-> EmptyCache,
     retry |-> FALSE, order |-> 0, dataset |-> {},
     via |-> "none", outer_pc |-> "none", direct |-> <<>>, value |-> None, outer_err |-> NoError]

\* no call in progress: the function called, and get_market_cap when the call
\* came through it, has returned or raised
Ended(r) == r.pc \in {"idle", "returned", "raised"} /\ r.outer_pc \notin {"direct", "inner"}

\* the record of a call that enters fn; cache0 is the cache it finds, repeat
\* says that the caller's call before it had the same function and arguments and
\* ended with a fetched list written to the cache, and retry that it had them
\* and ended with an empty list after a fetch
Enter(c, fn, t, s, e, l) ==
    [Idle EXCEPT !.pc = "fetch", !.fn = fn, !.ticker = t, !.start_date = s, !.end_date = e,
                 !.limit = l, !.current_end_date = e, !.cache0 = cache,
                 !.repeat = /\ call[c].wrote
                            /\ call[c].fn = fn /\ call[c].ticker = t /\ call[c].limit = l
                            /\ call[c].start_date = s /\ call[c].end_date = e,
                 !.retry = /\ call[c].pc = "returned" /\ call[c].http >= 1 /\ call[c].ret = <<>>
                           /\ call[c].fn = fn /\ call[c].ticker = t /\ call[c].limit = l
                           /\ call[c].start_date = s /\ call[c].end_date = e]

Return(r, list) == [r EXCEPT !.pc = "returned", !.ret = list]

Raise(r, e) == [r EXCEPT !.pc = "raised", !.err = e]

\* ---- get_market_cap ------------------------------------------------------
\* the frame of get_market_cap around a call of get_financial_metrics: via names
\* it, outer_pc is its position ("direct": before the direct endpoint answers,
\* "inner": inside get_financial_metrics), value is what it returns and outer_err
\* what it raises
ReturnValue(r, v) == [r EXCEPT !.outer_pc = "returned", !.value = v]

RaiseOuter(r, e) == [r EXCEPT !.outer_pc = "raised", !.outer_err = e]

\* api_market_cap_value without the test of a falsy market cap
api_market_cap_value_as_is(market_cap) == market_cap

\* if not market_cap: return None; return market_cap
api_market_cap_value(market_cap) == IF ~Truthy(market_cap) THEN None ELSE market_cap

\* api.py: financial_metrics = get_financial_metrics(...); financial_metrics[0].market_cap
api_market_cap_after(r) ==
    IF r.pc = "raised" THEN RaiseOuter(r, r.err)
    ELSE IF r.ret = <<>> THEN RaiseOuter(r, Error("Index", None))
    ELSE ReturnValue(r, api_market_cap_value(r.ret[1].market_cap))

\* api_east.py: inside try; except Exception: pass; return None
east_market_cap_after(r) ==
    IF r.pc = "raised" THEN ReturnValue(r, None)
    ELSE IF r.ret # <<>> /\ Truthy(r.ret[1].market_cap) THEN ReturnValue(r, r.ret[1].market_cap)
    ELSE ReturnValue(r, None)

\* where the caller stands once the step of get_financial_metrics is done: a
\* call through get_market_cap goes on in get_market_cap when the inner call ended
after_call(r) ==
    IF r.via = "get_market_cap" /\ r.outer_pc = "inner" /\ r.pc \in {"returned", "raised"}
    THEN (IF module = "api" THEN api_market_cap_after(r) ELSE east_market_cap_after(r))
    ELSE r

\* Invoke when a list answered from the cache is written back as the entry
Invoke_writeback(c, r) ==
    /\ Ended(call[c])
    /\ ncalls < MaxCalls
    /\ ncalls = 0 => r.ticker = "600000"
    /\ ncalls' = ncalls + 1
    /\ call' = [call EXCEPT ![c] = after_call(r)]
    /\ cache' = IF r.hit THEN cache_set(r.fn, r.ticker, dump_all(r.ret)) ELSE cache
    /\ UNCHANGED module

\* a caller enters a function: the cache lookup decides where the call stands
\* (the tickers are interchangeable, so the first call of a run takes the first)
Invoke(c, r) ==
    /\ Ended(call[c])
    /\ ncalls < MaxCalls
    /\ ncalls = 0 => r.ticker = "600000"
    /\ ncalls' = ncalls + 1
    /\ call' = [call EXCEPT ![c] = after_call(r)]
    /\ UNCHANGED <<module, cache>>

\* requests.get(...) came back with resp (http counts the requests of the call;
\* responses keeps what the provider answered)
Received(r, resp) == [r EXCEPT !.http = @ + 1, !.responses = Append(@, resp)]

\* the call goes on or ends without a cache write
Step(c, r) ==
    /\ call' = [call EXCEPT ![c] = after_call(r)]
    /\ UNCHANGED <<module, cache, ncalls>>

\* the place of a cache write among the writes of the callers' current calls:
\* one more than the latest write of the other callers
WriteOrder(c) ==
    LET others == {call[d].order : d \in DOMAIN call \ {c}}
    IN  1 + (IF others = {} THEN 0 ELSE CHOOSE m \in others : \A n \in others : n <= m)

\* CacheAndReturn when the list is added to the entry the cache holds
CacheAndReturn_merge(c, r, kind, list) ==
    /\ call' = [call EXCEPT ![c] =
                    after_call([Return(r, list) EXCEPT !.wrote = TRUE, !.written = dump_all(list),
                                                       !.order = WriteOrder(c)])]
    /\ cache' = cache_set(kind, r.ticker, cache_get(kind, r.ticker) \o dump_all(list))
    /\ UNCHANGED <<module, ncalls>>

\* _cache.set_<kind>(ticker, [x.model_dump() for x in list]); return list
CacheAndReturn(c, r, kind, list) ==
    /\ call' = [call EXCEPT ![c] =
                    after_call([Return(r, list) EXCEPT !.wrote = TRUE, !.written = dump_all(list),
                                                       !.order = WriteOrder(c)])]
    /\ cache' = cache_set(kind, r.ticker, dump_all(list))
    /\ UNCHANGED <<module, ncalls>>

\* ---- the provider's answers ----------------------------------------------
\* requests.get raised (no response), a non-200 status, or a 200 with a body
NoResponse == [status_code |-> None, error_code |-> 0, data |-> <<>>]

HttpResponses(bodies) ==
    {[status_code |-> HTTP_OK, error_code |-> 0, data |-> b] : b \in bodies}
        \cup {[status_code |-> 500, error_code |-> 0, data |-> <<>>], NoResponse}

\* juhe.cn also reports errors in a 200 body: error_code # 0
JuheResponses(bodies) ==
    HttpResponses(bodies) \cup {[status_code |-> HTTP_OK, error_code |-> 1, data |-> <<>>]}

\* raw items: price rows (numeric: float() of its fields succeeds), report rows,
\* executive share changes, news
PriceItems == [date : Dates, numeric : BOOLEAN]

JuheReportItems == [date : Dates, total_market_cap : {None, 5}]

JuheDatedItems == [date : Dates]

NewsItems == [date : Dates \cup DateTimes]

\* what juhe.cn may answer to each request of api.py
JuhePriceResponses == JuheResponses(SeqsUpTo(PriceItems, MaxResp))

JuheReportResponses == JuheResponses(SeqsUpTo(JuheReportItems, MaxResp))

JuheTradeResponses == JuheResponses(SeqsUpTo(JuheDatedItems, MaxResp))

JuheNewsResponses == JuheResponses(SeqsUpTo(NewsItems, MaxResp))

\* ---- the cache-hit path (the same text in api.py and api_east.py) --------
\* prices_filtered_data with an exclusive upper bound
prices_filtered_data_exclusive(cached_data, start_date, end_date) ==
    LET kept == SelectSeq(cached_data, LAMBDA price : start_date <= price.time /\ price.time < end_date)
    IN  [i \in DOMAIN kept |-> Price(kept[i])]

prices_filtered_data(cached_data, start_date, end_date) ==
    LET kept == SelectSeq(cached_data, LAMBDA price : start_date <= price.time /\ price.time <= end_date)
    IN  [i \in DOMAIN kept |-> Price(kept[i])]

financial_metrics_filtered_data(cached_data, end_date) ==
    LET kept == SelectSeq(cached_data, LAMBDA metric : metric.report_period <= end_date)
    IN  sort_by_report_period([i \in DOMAIN kept |-> FinancialMetrics(kept[i])])

insider_trades_filtered_data(cached_data, start_date, end_date) ==
    LET kept == SelectSeq(cached_data,
                    LAMBDA trade : /\ (start_date = None \/ EffectiveDate(trade) >= start_date)
                                   /\ EffectiveDate(trade) <= end_date)
    IN  sort_by_effective_date([i \in DOMAIN kept |-> InsiderTrade(kept[i])])

company_news_filtered_data(cached_data, start_date, end_date) ==
    LET kept == SelectSeq(cached_data,
                    LAMBDA news : /\ (start_date = None \/ news.date >= start_date)
                                  /\ news.date <= end_date)
    IN  sort_by_date([i \in DOMAIN kept |-> CompanyNews(kept[i])])

\* CacheHit when the cache is taken only if every cached record is in range
CacheHit_whole(cached_data, filtered_data) ==
    cached_data # <<>> /\ Len(filtered_data) = Len(cached_data)

\* CacheHit without the test of filtered_data
CacheHit_present(cached_data, filtered_data) == cached_data # <<>>

\* if cached_data := ...: ... if filtered_data: return
CacheHit(cached_data, filtered_data) == cached_data # <<>> /\ filtered_data # <<>>

\* ---- api.py --------------------------------------------------------------
\* after a miss: api_key = os.environ.get("JUHE_API_KEY"); if not api_key: raise
\* (api_key: whether the environment holds the key when the call reads it)
api_after_miss(r, api_key) ==
    IF ~api_key THEN Raise([r EXCEPT !.api_key = api_key], Error("Configuration", None))
    ELSE [r EXCEPT !.api_key = api_key]

\* response.status_code != 200 / data.get("error_code") != 0
api_response_error(resp) ==
    IF resp.status_code = None THEN Error("Request", None)
    ELSE IF resp.status_code # HTTP_OK THEN Error("Transport", resp.status_code)
    ELSE IF resp.error_code # 0 THEN Error("Application", None)
    ELSE NoError

api_get_prices(c) ==
    /\ module = "api"
    /\ \E t \in Tickers, api_key \in BOOLEAN, s \in Dates, e \in Dates :
         /\ s <= e
         /\ LET r == Enter(c, "prices", t, s, e, None)
                filtered_data == prices_filtered_data(cache_get("prices", t), s, e)
            IN  Invoke(c, IF CacheHit(cache_get("prices", t), filtered_data)
                          THEN Return([r EXCEPT !.hit = TRUE], filtered_data)
                          ELSE api_after_miss(r, api_key))

api_get_prices_response(c) ==
    /\ module = "api"
    /\ call[c].pc = "fetch" /\ call[c].fn = "prices"
    /\ \E resp \in JuhePriceResponses :
         LET r == Received(call[c], resp)
             items == resp.data
             prices == [i \in DOMAIN items |-> Price([time |-> items[i].date])]
         IN  IF api_response_error(resp) # NoError THEN Step(c, Raise(r, api_response_error(resp)))
             ELSE IF \E i \in DOMAIN items : ~items[i].numeric
                  THEN Step(c, Raise(r, Error("Mapping", None)))
             ELSE IF prices = <<>> THEN Step(c, Return(r, <<>>))
             ELSE CacheAndReturn(c, r, "prices", prices)

api_get_financial_metrics(c) ==
    /\ module = "api"
    /\ \E t \in Tickers, api_key \in BOOLEAN, e \in Dates, l \in Limits :
         LET r == Enter(c, "financial_metrics", t, None, e, l)
             filtered_data == financial_metrics_filtered_data(cache_get("financial_metrics", t), e)
         IN  Invoke(c, IF CacheHit(cache_get("financial_metrics", t), filtered_data)
                       THEN Return([r EXCEPT !.hit = TRUE], Take(filtered_data, l))
                       ELSE api_after_miss(r, api_key))

api_get_financial_metrics_response(c) ==
    /\ module = "api"
    /\ call[c].pc = "fetch" /\ call[c].fn = "financial_metrics"
    /\ \E resp \in JuheReportResponses :
         LET r == Received(call[c], resp)
             items == Take(resp.data, r.limit)
             financial_metrics ==
                 [i \in DOMAIN items |->
                     FinancialMetrics([report_period |-> items[i].date,
                                       market_cap |-> IF items[i].total_market_cap = None
                                                      THEN 0 ELSE items[i].total_market_cap])]
         IN  IF api_response_error(resp) # NoError THEN Step(c, Raise(r, api_response_error(resp)))
             ELSE IF financial_metrics = <<>> THEN Step(c, Return(r, <<>>))
             ELSE CacheAndReturn(c, r, "financial_metrics", financial_metrics)

\* get_market_cap: get_financial_metrics(ticker, end_date) with the default limit
api_get_market_cap(c) ==
    /\ module = "api"
    /\ \E t \in Tickers, api_key \in BOOLEAN, e \in Dates :
         LET r == [Enter(c, "financial_metrics", t, None, e, DefaultLimit)
                      EXCEPT !.via = "get_market_cap", !.outer_pc = "inner"]
             filtered_data == financial_metrics_filtered_data(cache_get("financial_metrics", t), e)
         IN  Invoke(c, IF CacheHit(cache_get("financial_metrics", t), filtered_data)
                       THEN Return([r EXCEPT !.hit = TRUE], Take(filtered_data, DefaultLimit))
                       ELSE api_after_miss(r, api_key))

\* if (start_date and d < start_date) or d > end_date: continue
api_in_range(d, start_date, end_date) == ~((Truthy(start_date) /\ d < start_date) \/ d > end_date)

api_get_insider_trades(c) ==
    /\ module = "api"
    /\ \E t \in Tickers, api_key \in BOOLEAN, s \in Dates \cup {None}, e \in Dates, l \in Limits :
         /\ s <= e
         /\ LET r == Enter(c, "insider_trades", t, s, e, l)
                filtered_data == insider_trades_filtered_data(cache_get("insider_trades", t), s, e)
            IN  Invoke(c, IF CacheHit(cache_get("insider_trades", t), filtered_data)
                          THEN Return([r EXCEPT !.hit = TRUE], filtered_data)
                          ELSE api_after_miss(r, api_key))

api_get_insider_trades_response(c) ==
    /\ module = "api"
    /\ call[c].pc = "fetch" /\ call[c].fn = "insider_trades"
    /\ \E resp \in JuheTradeResponses :
         LET r == Received(call[c], resp)
             items == SelectSeq(resp.data, LAMBDA item : api_in_range(item.date, r.start_date, r.end_date))
             all_trades == [i \in DOMAIN items |->
                               InsiderTrade([filing_date |-> items[i].date,
                                             transaction_date |-> items[i].date])]
         IN  IF api_response_error(resp) # NoError THEN Step(c, Raise(r, api_response_error(resp)))
             ELSE IF all_trades = <<>> THEN Step(c, Return(r, <<>>))
             ELSE CacheAndReturn(c, r, "insider_trades", Take(sort_by_effective_date(all_trades), r.limit))

api_get_company_news(c) ==
    /\ module = "api"
    /\ \E t \in Tickers, api_key \in BOOLEAN, s \in Dates \cup {None}, e \in Dates, l \in Limits :
         /\ s <= e
         /\ LET r == Enter(c, "company_news", t, s, e, l)
                filtered_data == company_news_filtered_data(cache_get("company_news", t), s, e)
            IN  Invoke(c, IF CacheHit(cache_get("company_news", t), filtered_data)
                          THEN Return([r EXCEPT !.hit = TRUE], filtered_data)
                          ELSE api_after_miss(r, api_key))

api_get_company_news_response(c) ==
    /\ module = "api"
    /\ call[c].pc = "fetch" /\ call[c].fn = "company_news"
    /\ \E resp \in JuheNewsResponses :
         LET r == Received(call[c], resp)
             items == SelectSeq(resp.data, LAMBDA item : api_in_range(item.date, r.start_date, r.end_date))
             all_news == [i \in DOMAIN items |-> CompanyNews([date |-> items[i].date])]
         IN  IF api_response_error(resp) # NoError THEN Step(c, Raise(r, api_response_error(resp)))
             ELSE IF all_news = <<>> THEN Step(c, Return(r, <<>>))
             ELSE CacheAndReturn(c, r, "company_news", Take(sort_by_date(all_news), r.limit))

\* ---- api_east.py ---------------------------------------------------------
\* Eastmoney k-lines: a comma-separated row, used when it has 7 parts or more
Klines == [time : Dates, nparts : {KlineFields - 1, KlineFields}]

EastReportItems == [REPORT_DATE : Dates]

\* insider trades as parsed by InsiderTradeResponse: transaction_date is optional,
\* and a transaction that is given precedes its filing
EastTradeItems ==
    {x \in [filing_date : Dates, transaction_date : Dates \cup {None}] :
        x.transaction_date = None \/ x.transaction_date < x.filing_date}

\* what the providers of api_east.py may answer; a page of the paginated
\* endpoints has at most the `limit` records its request asks for
SinaResponses == HttpResponses(SeqsUpTo(PriceItems, MaxResp))

EastmoneyKlineResponses == HttpResponses(SeqsUpTo(Klines, MaxResp))

EastmoneyReportResponses == HttpResponses(SeqsUpTo(EastReportItems, MaxResp))

TradePages == [l \in Limits |-> HttpResponses(SeqsUpTo(EastTradeItems, l))]

NewsPages == [l \in Limits |-> HttpResponses(SeqsUpTo(NewsItems, l))]

\* east_kline_usable with the bound off by one
east_kline_usable_strict(kline) == kline.nparts > KlineFields

\* if len(parts) >= 7
east_kline_usable(kline) == kline.nparts >= KlineFields

\* response.raise_for_status() inside try: any failure of the request
east_request_failed(resp) == resp.status_code # HTTP_OK

\* raise Exception(f"...: {ticker} - {str(e)}"): the text of an HTTPError names its status
east_wrapped_error(resp) == Error("Wrapped", resp.status_code)

east_get_prices(c) ==
    /\ module = "api_east"
    /\ \E t \in Tickers, s \in Dates, e \in Dates :
         /\ s <= e
         /\ LET r == Enter(c, "prices", t, s, e, None)
                filtered_data == prices_filtered_data(cache_get("prices", t), s, e)
            IN  Invoke(c, IF CacheHit(cache_get("prices", t), filtered_data)
                          THEN Return([r EXCEPT !.hit = TRUE], filtered_data)
                          ELSE r)

\* the try block: Sina
east_get_prices_response(c) ==
    /\ module = "api_east"
    /\ call[c].pc = "fetch" /\ call[c].fn = "prices"
    /\ \E resp \in SinaResponses :
         LET r == Received(call[c], resp)
             items == resp.data
             prices == [i \in DOMAIN items |-> Price([time |-> items[i].date])]
         IN  IF east_request_failed(resp) \/ \E i \in DOMAIN items : ~items[i].numeric
             THEN Step(c, [r EXCEPT !.pc = "fallback"])
             ELSE IF prices # <<>> THEN CacheAndReturn(c, r, "prices", prices)
             ELSE Step(c, Return(r, prices))

\* the except block: Eastmoney
east_get_prices_fallback(c) ==
    /\ module = "api_east"
    /\ call[c].pc = "fallback" /\ call[c].fn = "prices"
    /\ \E resp \in EastmoneyKlineResponses :
         LET r == Received(call[c], resp)
             klines == SelectSeq(resp.data, east_kline_usable)
             prices == [i \in DOMAIN klines |-> Price([time |-> klines[i].time])]
         IN  IF east_request_failed(resp) THEN Step(c, Raise(r, east_wrapped_error(resp)))
             ELSE IF prices # <<>> THEN CacheAndReturn(c, r, "prices", prices)
             ELSE Step(c, Return(r, prices))

east_get_financial_metrics(c) ==
    /\ module = "api_east"
    /\ \E t \in Tickers, e \in Dates, l \in Limits :
         LET r == Enter(c, "financial_metrics", t, None, e, l)
             filtered_data == financial_metrics_filtered_data(cache_get("financial_metrics", t), e)
         IN  Invoke(c, IF CacheHit(cache_get("financial_metrics", t), filtered_data)
                       THEN Return([r EXCEPT !.hit = TRUE], Take(filtered_data, l))
                       ELSE r)

east_get_financial_metrics_response(c) ==
    /\ module = "api_east"
    /\ call[c].pc = "fetch" /\ call[c].fn = "financial_metrics"
    /\ \E resp \in EastmoneyReportResponses :
         LET r == Received(call[c], resp)
             items == Take(resp.data, r.limit)
             financial_metrics ==
                 [i \in DOMAIN items |->
                     FinancialMetrics([report_period |-> items[i].REPORT_DATE, market_cap |-> None])]
         IN  IF east_request_failed(resp) THEN Step(c, Raise(r, east_wrapped_error(resp)))
             ELSE IF financial_metrics # <<>>
                  THEN CacheAndReturn(c, r, "financial_metrics", financial_metrics)
             ELSE Step(c, Return(r, financial_metrics))

\* the direct endpoint: data.data.f116, the total market value in yuan
EastmoneyQuoteResponses ==
    {[status_code |-> HTTP_OK, error_code |-> 0, data |-> f116] : f116 \in {None, 0, 3 * Yi}}
        \cup {[status_code |-> st, error_code |-> 0, data |-> None] : st \in {500, None}}

\* get_market_cap: the request to the direct endpoint
east_get_market_cap(c) ==
    /\ module = "api_east"
    /\ \E t \in Tickers, e \in Dates :
         Invoke(c, [Idle EXCEPT !.via = "get_market_cap", !.outer_pc = "direct",
                                !.ticker = t, !.end_date = e])

\* get_market_cap: the direct endpoint answered; without a market cap there,
\* get_financial_metrics(ticker, end_date) is called
east_get_market_cap_response(c) ==
    /\ module = "api_east"
    /\ call[c].outer_pc = "direct"
    /\ \E resp \in EastmoneyQuoteResponses :
         LET o == [call[c] EXCEPT !.direct = <<resp>>]
             t == o.ticker
             e == o.end_date
             r == [Enter(c, "financial_metrics", t, None, e, DefaultLimit)
                      EXCEPT !.via = "get_market_cap", !.outer_pc = "inner", !.direct = <<resp>>]
             filtered_data == financial_metrics_filtered_data(cache_get("financial_metrics", t), e)
         IN  IF east_request_failed(resp) THEN Step(c, ReturnValue(o, None))
             ELSE IF Truthy(resp.data) THEN Step(c, ReturnValue(o, resp.data \div Yi))
             ELSE IF CacheHit(cache_get("financial_metrics", t), filtered_data)
                  THEN Step(c, Return([r EXCEPT !.hit = TRUE], Take(filtered_data, DefaultLimit)))
             ELSE Step(c, r)

\* after a miss: if api_key := os.environ.get("FINANCIAL_DATASETS_API_KEY"):
\* headers["X-API-KEY"] = api_key
east_after_miss(r, api_key) == [r EXCEPT !.api_key = api_key]

\* if response.status_code != 200: raise Exception(f"... {response.status_code} ...")
east_page_error(resp) ==
    IF resp.status_code = None THEN Error("Request", None) ELSE Error("Transport", resp.status_code)

\* east_last_page without the test of start_date
east_last_page_sized(page, start_date, limit) == Len(page) < limit

\* if not start_date or len(page) < limit: break
east_last_page(page, start_date, limit) == ~Truthy(start_date) \/ Len(page) < limit

\* east_reached_start with a strict comparison
east_reached_start_strict(current_end_date, start_date) == current_end_date < start_date

\* if current_end_date <= start_date: break
east_reached_start(current_end_date, start_date) == current_end_date <= start_date

\* east_after_page when every page read is written to the cache at once
east_after_page_eager(c, r, kind, page, oldest) ==
    LET all == r.all \o page
        current_end_date == DatePart(oldest)
        End(list, rr) == IF list = <<>> THEN Step(c, Return(rr, <<>>))
                         ELSE CacheAndReturn(c, rr, kind, list)
    IN  IF page = <<>> THEN End(r.all, r)
        ELSE IF east_last_page(page, r.start_date, r.limit) THEN End(all, [r EXCEPT !.all = all])
        ELSE IF east_reached_start(current_end_date, r.start_date)
             THEN End(all, [r EXCEPT !.all = all, !.current_end_date = current_end_date])
        ELSE /\ call' = [call EXCEPT ![c] = [r EXCEPT !.all = all, !.current_end_date = current_end_date]]
             /\ cache' = cache_set(kind, r.ticker, dump_all(all))
             /\ UNCHANGED <<module, ncalls>>

\* east_after_page when the list is written to the cache whether empty or not
east_after_page_unconditional(c, r, kind, page, oldest) ==
    LET all == r.all \o page
        current_end_date == DatePart(oldest)
    IN  IF page = <<>> THEN CacheAndReturn(c, r, kind, r.all)
        ELSE IF east_last_page(page, r.start_date, r.limit)
             THEN CacheAndReturn(c, [r EXCEPT !.all = all], kind, all)
        ELSE IF east_reached_start(current_end_date, r.start_date)
             THEN CacheAndReturn(c, [r EXCEPT !.all = all, !.current_end_date = current_end_date], kind, all)
        ELSE Step(c, [r EXCEPT !.all = all, !.current_end_date = current_end_date])

\* the body of the while loop after a page was parsed; oldest is min(date of the page)
east_after_page(c, r, kind, page, oldest) ==
    LET all == r.all \o page
        current_end_date == DatePart(oldest)
        End(list, rr) == IF list = <<>> THEN Step(c, Return(rr, <<>>))
                         ELSE CacheAndReturn(c, rr, kind, list)
    IN  IF page = <<>> THEN End(r.all, r)
        ELSE IF east_last_page(page, r.start_date, r.limit) THEN End(all, [r EXCEPT !.all = all])
        ELSE IF east_reached_start(current_end_date, r.start_date)
             THEN End(all, [r EXCEPT !.all = all, !.current_end_date = current_end_date])
        ELSE Step(c, [r EXCEPT !.all = all, !.current_end_date = current_end_date])

east_get_insider_trades(c) ==
    /\ module = "api_east"
    /\ \E t \in Tickers, api_key \in BOOLEAN, s \in Dates \cup {None}, e \in Dates, l \in Limits :
         /\ s <= e
         /\ LET r == Enter(c, "insider_trades", t, s, e, l)
                filtered_data == insider_trades_filtered_data(cache_get("insider_trades", t), s, e)
            IN  Invoke(c, IF CacheHit(cache_get("insider_trades", t), filtered_data)
                          THEN Return([r EXCEPT !.hit = TRUE], filtered_data)
                          ELSE east_after_miss(r, api_key))

\* one turn of the while loop: a page request and what follows it
east_get_insider_trades_page(c) ==
    /\ module = "api_east"
    /\ call[c].pc = "fetch" /\ call[c].fn = "insider_trades"
    /\ call[c].http < MaxPages
    /\ \E resp \in TradePages[call[c].limit] :
         LET r == Received(call[c], resp)
             insider_trades == [i \in DOMAIN resp.data |-> InsiderTrade(resp.data[i])]
         IN  IF resp.status_code # HTTP_OK THEN Step(c, Raise(r, east_page_error(resp)))
             ELSE east_after_page(c, r, "insider_trades", insider_trades,
                                  MinOf({resp.data[i].filing_date : i \in DOMAIN resp.data}))

east_get_company_news(c) ==
    /\ module = "api_east"
    /\ \E t \in Tickers, api_key \in BOOLEAN, s \in Dates \cup {None}, e \in Dates, l \in Limits :
         /\ s <= e
         /\ LET r == Enter(c, "company_news", t, s, e, l)
                filtered_data == company_news_filtered_data(cache_get("company_news", t), s, e)
            IN  Invoke(c, IF CacheHit(cache_get("company_news", t), filtered_data)
                          THEN Return([r EXCEPT !.hit = TRUE], filtered_data)
                          ELSE east_after_miss(r, api_key))

east_get_company_news_page(c) ==
    /\ module = "api_east"
    /\ call[c].pc = "fetch" /\ call[c].fn = "company_news"
    /\ call[c].http < MaxPages
    /\ \E resp \in NewsPages[call[c].limit] :
         LET r == Received(call[c], resp)
             company_news == [i \in DOMAIN resp.data |-> CompanyNews(resp.data[i])]
         IN  IF resp.status_code # HTTP_OK THEN Step(c, Raise(r, east_page_error(resp)))
             ELSE east_after_page(c, r, "company_news", company_news,
                                  MinOf({resp.data[i].date : i \in DOMAIN resp.data}))

\* ---- api_east.py against a provider that pages by date --------------------
\* The provider of the paginated endpoints holds a set of records, each once,
\* and answers a page request with the newest `limit` records dated at or before
\* the request's upper date (filing_date_lte / end_date) and, when the request
\* has one, at or after its lower date (filing_date_gte / start_date).
PagedDates == {2 * d : d \in 1..MaxPagedDay}

PagedDateTimes == {2 * d + 1 : d \in 1..MaxPagedDay}

ProviderTrades ==
    {x \in [filing_date : PagedDates, transaction_date : PagedDates \cup {None}] :
        x.transaction_date = None \/ x.transaction_date < x.filing_date}

ProviderNews == [date : PagedDates \cup PagedDateTimes]

\* the records of S, the one of the highest rank first (rank is one-to-one on S)
NewestFirst(S, rank) ==
    [p \in 1..Cardinality(S) |->
        CHOOSE x \in S : Cardinality({y \in S : rank[y] > rank[x]}) = p - 1]

\* ...insider-trades/?ticker=..&filing_date_lte={current_end_date}[&filing_date_gte={start_date}]&limit={limit}
provider_insider_trades(dataset, current_end_date, start_date, limit) ==
    LET newest == NewestFirst(dataset, [x \in dataset |-> 2 * MaxPagedDay * x.filing_date + x.transaction_date])
        asked == SelectSeq(newest, LAMBDA x : x.filing_date <= current_end_date
                                             /\ (Truthy(start_date) => x.filing_date >= start_date))
    IN  [status_code |-> HTTP_OK, error_code |-> 0, data |-> Take(asked, limit)]

\* ...news/?ticker=..&end_date={current_end_date}[&start_date={start_date}]&limit={limit}
provider_news(dataset, current_end_date, start_date, limit) ==
    LET newest == NewestFirst(dataset, [x \in dataset |-> x.date])
        asked == SelectSeq(newest, LAMBDA x : x.date <= current_end_date
                                             /\ (Truthy(start_date) => x.date >= start_date))
    IN  [status_code |-> HTTP_OK, error_code |-> 0, data |-> Take(asked, limit)]

\* get_insider_trades, called while the provider holds dataset
paged_get_insider_trades(c) ==
    /\ module = "api_east"
    /\ ncalls < MaxPagedCalls
    /\ \E t \in Tickers, api_key \in BOOLEAN, s \in PagedDates \cup {None}, e \in PagedDates,
          l \in Limits, dataset \in SUBSET ProviderTrades :
         /\ s <= e
         /\ LET r == [Enter(c, "insider_trades", t, s, e, l) EXCEPT !.dataset = dataset]
                filtered_data == insider_trades_filtered_data(cache_get("insider_trades", t), s, e)
            IN  Invoke(c, IF CacheHit(cache_get("insider_trades", t), filtered_data)
                          THEN Return([r EXCEPT !.hit = TRUE], filtered_data)
                          ELSE east_after_miss(r, api_key))

\* one turn of the while loop of get_insider_trades, the provider answering the page asked
paged_get_insider_trades_page(c) ==
    /\ module = "api_east"
    /\ call[c].pc = "fetch" /\ call[c].fn = "insider_trades"
    /\ call[c].http < MaxPages
    /\ LET resp == provider_insider_trades(call[c].dataset, call[c].current_end_date,
                                           call[c].start_date, call[c].limit)
           r == Received(call[c], resp)
           insider_trades == [i \in DOMAIN resp.data |-> InsiderTrade(resp.data[i])]
       IN  east_after_page(c, r, "insider_trades", insider_trades,
                           MinOf({resp.data[i].filing_date : i \in DOMAIN resp.data}))

\* get_company_news, called while the provider holds dataset
paged_get_company_news(c) ==
    /\ module = "api_east"
    /\ ncalls < MaxPagedCalls
    /\ \E t \in Tickers, api_key \in BOOLEAN, s \in PagedDates \cup {None}, e \in PagedDates,
          l \in Limits, dataset \in SUBSET ProviderNews :
         /\ s <= e
         /\ LET r == [Enter(c, "company_news", t, s, e, l) EXCEPT !.dataset = dataset]
                filtered_data == company_news_filtered_data(cache_get("company_news", t), s, e)
            IN  Invoke(c, IF CacheHit(cache_get("company_news", t), filtered_data)
                          THEN Return([r EXCEPT !.hit = TRUE], filtered_data)
                          ELSE east_after_miss(r, api_key))

\* one turn of the while loop of get_company_news, the provider answering the page asked
paged_get_company_news_page(c) ==
    /\ module = "api_east"
    /\ call[c].pc = "fetch" /\ call[c].fn = "company_news"
    /\ call[c].http < MaxPages
    /\ LET resp == provider_news(call[c].dataset, call[c].current_end_date,
                                 call[c].start_date, call[c].limit)
           r == Received(call[c], resp)
           company_news == [i \in DOMAIN resp.data |-> CompanyNews(resp.data[i])]
       IN  east_after_page(c, r, "company_news", company_news,
                           MinOf({resp.data[i].date : i \in DOMAIN resp.data}))

\* ---- specification -------------------------------------------------------
Init ==
    /\ module \in Modules
    /\ cache = EmptyCache
    /\ call = [c \in Callers |-> Idle]
    /\ ncalls = 0

Next ==
    \E c \in Callers :
        \/ api_get_prices(c)
        \/ api_get_prices_response(c)
        \/ api_get_financial_metrics(c)
        \/ api_get_financial_metrics_response(c)
        \/ api_get_market_cap(c)
        \/ api_get_insider_trades(c)
        \/ api_get_insider_trades_response(c)
        \/ api_get_company_news(c)
        \/ api_get_company_news_response(c)
        \/ east_get_prices(c)
        \/ east_get_prices_response(c)
        \/ east_get_prices_fallback(c)
        \/ east_get_financial_metrics(c)
        \/ east_get_financial_metrics_response(c)
        \/ east_get_market_cap(c)
        \/ east_get_market_cap_response(c)
        \/ east_get_insider_trades(c)
        \/ east_get_insider_trades_page(c)
        \/ east_get_company_news(c)
        \/ east_get_company_news_page(c)

Spec == Init /\ [][Next]_vars

\* two callers (threads of the process) share _cache with no lock: the steps of
\* their calls interleave
InitRace ==
    /\ module \in Modules
    /\ cache = EmptyCache
    /\ call = [c \in RaceCallers |-> Idle]
    /\ ncalls = 0

NextRace ==
    \E c \in RaceCallers :
        \/ api_get_prices(c)
        \/ api_get_prices_response(c)
        \/ api_get_insider_trades(c)
        \/ api_get_insider_trades_response(c)
        \/ east_get_financial_metrics(c)
        \/ east_get_financial_metrics_response(c)

SpecRace == InitRace /\ [][NextRace]_vars

\* api_east called while the provider pages by date
InitPaged ==
    /\ module = "api_east"
    /\ cache = EmptyCache
    /\ call = [c \in Callers |-> Idle]
    /\ ncalls = 0

NextPaged ==
    \E c \in Callers :
        \/ paged_get_insider_trades(c)
        \/ paged_get_insider_trades_page(c)
        \/ paged_get_company_news(c)
        \/ paged_get_company_news_page(c)

SpecPaged == InitPaged /\ [][NextPaged]_vars

\* ---- properties -----------------------------------------------------------
Paginated == {"insider_trades", "company_news"}

Limited == {"financial_metrics", "insider_trades", "company_news"}

Started(r) == r.pc # "idle"

Finished(r) == r.pc \in {"returned", "raised"}

\* the date under which a record falls in a request's range: time, report_period,
\* transaction_date else filing_date, date
RelevantDate(fn, x) ==
    CASE fn = "prices" -> x.time
      [] fn = "financial_metrics" -> x.report_period
      [] fn = "insider_trades" ->
             (IF x.transaction_date # None THEN x.transaction_date ELSE x.filing_date)
      [] fn = "company_news" -> x.date

\* start_date <= d <= end_date, with no lower bound when the call has no start_date
InRequestRange(r, x) ==
    /\ r.start_date # None => r.start_date <= RelevantDate(r.fn, x)
    /\ RelevantDate(r.fn, x) <= r.end_date

\* the cache entry the call found for its ticker, and the records of it in range
Entry0(r) == r.cache0[r.fn][r.ticker]

CachedInRange(r) == SelectSeq(Entry0(r), LAMBDA x : InRequestRange(r, x))

Count(s, x) == Cardinality({i \in DOMAIN s : s[i] = x})

\* the same records, each as often, in any order
SameRecords(a, b) ==
    /\ Len(a) = Len(b)
    /\ \A i \in DOMAIN a : Count(a, a[i]) = Count(b, a[i])

\* C1: a call that finds in the cache, for its ticker, a record in the request's
\* range returns without issuing an HTTP request.
C1_CacheHitNoRequest ==
    \A c \in Callers :
        Started(call[c]) /\ CachedInRange(call[c]) # <<>>
            => call[c].pc = "returned" /\ call[c].http = 0

C1_Witness ==
    \E c \in Callers :
        /\ call[c].pc = "returned" /\ call[c].http = 0
        /\ CachedInRange(call[c]) # <<>>
        /\ Len(CachedInRange(call[c])) < Len(Entry0(call[c]))

\* C2 as stated: a call that finds cached records for its ticker, none of them in
\* the request's range, does not end before it has issued an HTTP request.
C2_EmptyFilterAlwaysRequests ==
    \A c \in Callers :
        Finished(call[c]) /\ Entry0(call[c]) # <<>> /\ CachedInRange(call[c]) = <<>>
            => call[c].http >= 1

\* C2 as amended: such a call ends only after an HTTP request, or, in api.py with
\* the API key absent, with the configuration error and no request.
C2_EmptyFilterFetches ==
    \A c \in Callers :
        Finished(call[c]) /\ Entry0(call[c]) # <<>> /\ CachedInRange(call[c]) = <<>>
            => \/ call[c].http >= 1
               \/ /\ module = "api" /\ ~call[c].api_key
                  /\ call[c].pc = "raised" /\ call[c].err.type = "Configuration"

C2_Witness ==
    \E c \in Callers :
        /\ Finished(call[c]) /\ Entry0(call[c]) # <<>> /\ CachedInRange(call[c]) = <<>>
        /\ call[c].http >= 1

\* C3: a call that repeats the function and arguments of the call before it, which
\* fetched a non-empty list and cached it, returns the same records from the cache
\* and issues no HTTP request (a call that fails for a missing API key set aside).
C3_RoundTrip ==
    \A c \in Callers :
        Started(call[c]) /\ call[c].repeat /\ call[c].err.type # "Configuration"
            => /\ call[c].pc = "returned" /\ call[c].http = 0
               /\ SameRecords(dump_all(call[c].ret), Entry0(call[c]))

\* C4: a returned list of insider trades, news or financial metrics is in
\* descending order of the effective date, the date, the report period.
C4_SortedDescending ==
    \A c \in Callers :
        call[c].pc = "returned" /\ call[c].fn \in Limited
            => \A i, j \in DOMAIN call[c].ret :
                   i < j => RelevantDate(call[c].fn, call[c].ret[i])
                                >= RelevantDate(call[c].fn, call[c].ret[j])

\* C5: a returned list of financial metrics, insider trades or news has at most
\* `limit` entries.
C5_AtMostLimit ==
    \A c \in Callers :
        call[c].pc = "returned" /\ call[c].fn \in Limited
            => Len(call[c].ret) <= call[c].limit

\* C6: the pagination loop of api_east ends within a bounded number of page
\* requests: it never stands before a further request after MaxPages of them.
C6_PaginationBounded ==
    \A c \in Callers :
        module = "api_east" /\ call[c].fn \in Paginated /\ call[c].pc = "fetch"
            => call[c].http < MaxPages

\* C7: once the cursor taken from a page is at or before start_date, the
\* pagination loop of api_east issues no further page request.
C7_NoPageAtOrBeforeStart ==
    \A c \in Callers :
        /\ module = "api_east" /\ call[c].fn \in Paginated
        /\ call[c].http >= 1
        /\ call[c].current_end_date <= call[c].start_date
        => call[c].pc # "fetch"

C7_Witness ==
    \E c \in Callers :
        /\ module = "api_east" /\ call[c].fn \in Paginated
        /\ call[c].pc = "returned"
        /\ call[c].start_date # None
        /\ call[c].start_date < call[c].end_date
        /\ Len(call[c].responses[call[c].http].data) = call[c].limit
        /\ call[c].current_end_date <= call[c].start_date

\* C8: a list returned from the cache holds exactly the cached records in the
\* request's range (prices, insider trades, news), and for financial metrics only
\* cached records with report_period <= end_date.
C8_CacheHitFilter ==
    \A c \in Callers :
        call[c].hit
            => IF call[c].fn = "financial_metrics"
               THEN \A i \in DOMAIN call[c].ret :
                        /\ InRequestRange(call[c], call[c].ret[i])
                        /\ Count(Entry0(call[c]), model_dump(call[c].ret[i])) >= 1
               ELSE SameRecords(dump_all(call[c].ret), CachedInRange(call[c]))

C8_Witness ==
    \E c \in Callers :
        /\ call[c].hit /\ call[c].fn # "financial_metrics"
        /\ Len(call[c].ret) < Len(Entry0(call[c]))

\* C9: a call whose provider answers HTTP 500 (the last answer; for the fallback
\* chain of get_prices in api_east, both answers) fails with an error that carries
\* the status 500, and the cache is as the call found it.
C9_ServerErrorFails ==
    \A c \in Callers :
        LET r == call[c]
            n == Len(r.responses)
        IN  /\ n >= 1
            /\ r.responses[n].status_code = 500
            /\ (module = "api_east" /\ r.fn = "prices"
                    => n = 2 /\ r.responses[1].status_code = 500)
            => /\ r.pc = "raised"
               /\ r.err.status_code = 500
               /\ cache = r.cache0

C9_Witness ==
    \E c \in Callers :
        /\ call[c].fn \in Paginated
        /\ Len(call[c].responses) = 2
        /\ call[c].responses[1].status_code = HTTP_OK
        /\ call[c].responses[2].status_code = 500
        /\ call[c].pc = "raised"
        /\ call[c].cache0[call[c].fn]["600000"] # <<>>

MarketCapEnded(r) == r.via = "get_market_cap" /\ r.outer_pc \in {"returned", "raised"}

\* the direct endpoint of api_east answered without failure and without a market cap
DirectGaveNothing(r) ==
    Len(r.direct) = 1 /\ r.direct[1].status_code = HTTP_OK /\ r.direct[1].data \in {None, 0}

\* C11: get_market_cap returns None, with no error, whenever the record at index 0
\* of what get_financial_metrics returned has a market_cap that is None or zero
\* (in api_east: after the direct endpoint gave no market cap).
C11_MarketCapUnavailable ==
    \A c \in Callers :
        LET r == call[c]
        IN  /\ MarketCapEnded(r)
            /\ r.pc = "returned" /\ r.ret # <<>>
            /\ r.ret[1].market_cap \in {None, 0}
            /\ (module = "api_east" => DirectGaveNothing(r))
            => r.outer_pc = "returned" /\ r.value = None /\ r.outer_err = NoError

C11_Witness ==
    \E c \in Callers :
        /\ module = "api" /\ MarketCapEnded(call[c])
        /\ call[c].http = 1
        /\ call[c].ret # <<>> /\ call[c].ret[1].market_cap = 0
        /\ call[c].value = None

C11_WitnessEast ==
    \E c \in Callers :
        /\ module = "api_east" /\ MarketCapEnded(call[c])
        /\ DirectGaveNothing(call[c])
        /\ call[c].ret # <<>> /\ call[c].ret[1].market_cap = None
        /\ call[c].value = None

\* C12: a live fetch that ends with an empty list returns it and writes nothing:
\* the cache is as the call found it; and the caller's next call with the same
\* function and arguments is not answered from the cache but requests the
\* provider again (a call that fails for a missing API key set aside).
C12_EmptyFetchNoWrite ==
    \A c \in Callers :
        LET r == call[c]
        IN  /\ r.pc = "returned" /\ r.http >= 1 /\ r.ret = <<>>
                => ~r.wrote /\ cache = r.cache0
            /\ Started(r) /\ r.retry
                => /\ ~r.hit
                   /\ Finished(r) /\ r.err.type # "Configuration" => r.http >= 1

C12_Witness ==
    \E c \in Callers :
        /\ call[c].retry
        /\ call[c].pc = "returned" /\ call[c].http >= 1 /\ call[c].ret = <<>>

ReadsKey(r) == module = "api" \/ r.fn \in Paginated

\* C14: a call that needs a live fetch while the provider's API key is absent
\* fails with the configuration error before any HTTP request.
C14_MissingKeyFailsFast ==
    \A c \in Callers :
        LET r == call[c]
        IN  Finished(r) /\ ~r.hit /\ ReadsKey(r) /\ ~r.api_key
                => r.pc = "raised" /\ r.err.type = "Configuration" /\ r.http = 0

\* C15: get_prices of api_east does not end after a primary answer without
\* records before the secondary provider has been requested.
C15_FallbackOnEmptyPrimary ==
    \A c \in Callers :
        LET r == call[c]
        IN  /\ module = "api_east" /\ r.fn = "prices" /\ Finished(r)
            /\ Len(r.responses) >= 1
            /\ r.responses[1].status_code = HTTP_OK /\ r.responses[1].data = <<>>
            => Len(r.responses) >= 2

\* C16: every record a live fetch of insider trades or news returns has its
\* effective date within the request's range.
C16_FetchedInRange ==
    \A c \in Callers :
        LET r == call[c]
        IN  r.pc = "returned" /\ r.http >= 1 /\ r.fn \in Paginated
                => \A i \in DOMAIN r.ret : InRequestRange(r, r.ret[i])

\* a provider failure: no response, a non-200 status, an error reported in the body
Failed(resp) == resp.status_code # HTTP_OK \/ resp.error_code # 0

\* a failure met by the call outside the primary step of the fallback chain
FailureMet(r) ==
    \/ \E i \in DOMAIN r.responses :
           Failed(r.responses[i]) /\ ~(module = "api_east" /\ r.fn = "prices" /\ i = 1)
    \/ \E i \in DOMAIN r.direct : Failed(r.direct[i])

\* C17: a call that met a provider failure ends as a failure for its caller:
\* the function called raises, get_market_cap included.
C17_FailuresSurfaced ==
    \A c \in Callers :
        LET r == call[c]
        IN  Ended(r) /\ FailureMet(r)
                => IF r.via = "get_market_cap" THEN r.outer_pc = "raised" ELSE r.pc = "raised"

\* C19: in api_east, a fetch of insider trades or news with no start_date issues
\* exactly one page request, whatever the page holds; and with a start_date no
\* page is requested after a page with fewer than `limit` records.
C19_SinglePageWithoutStart ==
    \A c \in Callers :
        LET r == call[c]
            n == Len(r.responses)
        IN  module = "api_east" /\ r.fn \in Paginated
                => /\ r.start_date = None
                        => /\ r.http <= 1
                           /\ r.http = 1 => r.pc # "fetch"
                           /\ Finished(r) /\ ~r.hit => r.http = 1
                   /\ /\ r.start_date # None /\ n >= 1
                      /\ r.responses[n].status_code = HTTP_OK
                      /\ Len(r.responses[n].data) < r.limit
                      => r.pc # "fetch"

C19_Witness ==
    \E c \in Callers :
        /\ module = "api_east" /\ call[c].fn \in Paginated
        /\ call[c].start_date = None
        /\ call[c].pc = "returned" /\ call[c].http = 1
        /\ call[c].limit > 1 /\ Len(call[c].responses[1].data) = call[c].limit

\* C20: a call answered from the cache writes nothing: the cache is, for every
\* ticker and kind, as the call found it, records outside the range included.
C20_CacheHitNoWrite ==
    \A c \in Callers :
        call[c].hit => ~call[c].wrote /\ cache = call[c].cache0

C20_Witness ==
    \E c \in Callers :
        /\ call[c].hit /\ call[c].pc = "returned"
        /\ \E i \in DOMAIN Entry0(call[c]) : ~InRequestRange(call[c], Entry0(call[c])[i])
        /\ cache[call[c].fn][call[c].ticker] = Entry0(call[c])

\* C18: when two callers have fetched for the same ticker and kind and both have
\* written the cache, the entry is the complete list written by the caller whose
\* write came last.
C18_LastWriterWins ==
    \A c, d \in DOMAIN call :
        /\ c # d /\ Ended(call[c]) /\ Ended(call[d])
        /\ call[c].wrote /\ call[d].wrote
        /\ call[c].fn = call[d].fn /\ call[c].ticker = call[d].ticker
        /\ call[c].order > call[d].order
        => cache[call[c].fn][call[c].ticker] = call[c].written

\* both callers read the cache before either wrote, and wrote different lists
C18_Witness ==
    \E c, d \in DOMAIN call :
        /\ c # d /\ Ended(call[c]) /\ Ended(call[d])
        /\ call[c].wrote /\ call[d].wrote
        /\ call[c].fn = call[d].fn /\ call[c].ticker = call[d].ticker
        /\ call[c].order > call[d].order
        /\ Entry0(call[c]) = <<>> /\ Entry0(call[d]) = <<>>
        /\ call[c].written # call[d].written
        /\ cache[call[c].fn][call[c].ticker] = call[c].written

\* C21: the list that a fetch of insider trades or news over several pages
\* returns and caches holds no record of the provider twice, the provider
\* answering each page with the newest records dated at or before the cursor.
C21_NoDuplicateRecords ==
    \A c \in Callers :
        LET r == call[c]
        IN  /\ module = "api_east" /\ r.fn \in Paginated
            /\ r.pc = "returned" /\ r.http >= 2
            => /\ \A i \in DOMAIN r.ret : Count(r.ret, r.ret[i]) = 1
               /\ \A i \in DOMAIN r.written : Count(r.written, r.written[i]) = 1

====
